---- MODULE Spec2Model ----
(***************************************************************************)
(* Connection / transaction lifecycle of www/transwarp/db.py.              *)
(*                                                                         *)
(* Each thread has its own _DbCtx (threading.local): a _LazyConnection or  *)
(* None, and the nesting counter `transactions`.  _ConnectionCtx and       *)
(* _TransactionCtx are context managers used with stack discipline; the    *)
(* facade function _update runs inside a _ConnectionCtx (with_connection). *)
(* The driver (sqlite3) is external: its execute / commit / rollback may   *)
(* fail, which is a nondeterministic choice of every action that calls it. *)
(***************************************************************************)
EXTENDS Integers, Sequences, FiniteSets, TLC

\* ------------------------------------------------------------------ bounds
MaxNest == 4
MaxNestConc == 1
MaxEngineCalls == 2
MaxRows == 1
MaxCols == 2

Threads == {1, 2}
RawConns == 1..MaxEngineCalls
LazyIds == 1..(Cardinality(Threads) + 1)
ColNames == {"a", "b"}
\* cursor.description of a query: the column names of its rows
Descriptions == UNION {[1..n -> ColNames] : n \in 1..MaxCols}

VARIABLES
    engine,      \* global `engine`: 0 is None, else the raw connection _Engine holds
    rawCount,    \* raw connections made so far by sqlite3.connect in create_engine
    ctx,         \* _db_ctx, one per thread: [connection, transactions]
    stack,       \* per thread, the context managers entered and not yet exited
    exc,         \* per thread, the exception in flight (NoExc when none)
    pending,     \* per raw connection, the threads with uncommitted statements on it
    failed,      \* history: a _TransactionCtx of the thread's current transaction exited with an error
    txCommits,   \* history: commit() calls by the thread since its transaction began
    txRollbacks, \* history: rollback() calls by the thread since its transaction began
    maxDepth,    \* history: the highest value of transactions in the thread's current transaction
    last         \* history: what the last handler did

vars == <<engine, rawCount, ctx, stack, exc, pending, failed, txCommits, txRollbacks, maxDepth,
          last>>

\* ------------------------------------------------------------------ values
NoConn == [id |-> 0, raw |-> 0]
NoExc == [kind |-> "none", cause |-> "none"]
Err(k) == [kind |-> k, cause |-> "none"]

NoLast ==
    [op |-> "none", t |-> 0, calls |-> <<>>, excIn |-> NoExc, flag |-> FALSE,
     pre |-> [connection |-> NoConn, transactions |-> 0], entered |-> FALSE,
     ef |-> FALSE, cf |-> FALSE, rf |-> FALSE,
     engine |-> 0, rows |-> 0, names |-> <<>>, ret |-> "none"]

Count(s, x) == Cardinality({i \in DOMAIN s : s[i] = x})
Index(s, x) == IF \E i \in DOMAIN s : s[i] = x
               THEN CHOOSE i \in DOMAIN s : s[i] = x /\ \A j \in DOMAIN s : s[j] = x => i <= j
               ELSE 0

\* ------------------------------------------------------------------ _Engine, _LazyConnection
\* _Engine.connect: returns the object stored at construction.
EngineConnect == engine

\* id of a newly allocated _LazyConnection object: one no context refers to.
FreshLazy == CHOOSE i \in LazyIds :
                 /\ \A t \in Threads : ctx[t].connection.id # i
                 /\ \A j \in LazyIds : (\A t \in Threads : ctx[t].connection.id # j) => i <= j

\* _LazyConnection.__init__: self.connection = engine.connect()
LazyConnectionNew == [id |-> FreshLazy, raw |-> EngineConnect]

\* ------------------------------------------------------------------ _DbCtx
is_init(c) == c.connection # NoConn

init(c) == [connection |-> LazyConnectionNew, transactions |-> 0]

cleanup(c) == [c EXCEPT !.connection = NoConn]

\* ------------------------------------------------------------------ driver effects
\* pending statements of a raw connection after a commit() or rollback() on it
AfterEnd(p, raw, ok) == IF ok THEN [p EXCEPT ![raw] = {}] ELSE p

\* ------------------------------------------------------------------ _TransactionCtx.commit / rollback
\* Result of a call: the connection calls issued, the error raised, the pending map.
\* variant: a failed commit is re-raised without the compensating rollback
TxCommitNoCompensation(p, raw, cf, rf) ==
    IF ~cf
    THEN [calls |-> <<"commit">>, err |-> NoExc, pending |-> AfterEnd(p, raw, TRUE)]
    ELSE [calls |-> <<"commit">>, err |-> Err("CommitError"), pending |-> p]

TxCommit(p, raw, cf, rf) ==
    IF ~cf
    THEN [calls |-> <<"commit">>, err |-> NoExc, pending |-> AfterEnd(p, raw, TRUE)]
    ELSE IF ~rf
         THEN [calls |-> <<"commit", "rollback">>, err |-> Err("CommitError"),
               pending |-> AfterEnd(p, raw, TRUE)]
         ELSE [calls |-> <<"commit", "rollback">>, err |-> Err("RollbackError"),
               pending |-> p]

TxRollback(p, raw, rf) ==
    IF ~rf
    THEN [calls |-> <<"rollback">>, err |-> NoExc, pending |-> AfterEnd(p, raw, TRUE)]
    ELSE [calls |-> <<"rollback">>, err |-> Err("RollbackError"), pending |-> p]

\* variant: the counter is not tested, every error-free exit commits
TxExitTryEveryLevel(p, raw, d, exctype, cf, rf) ==
    IF exctype = NoExc THEN TxCommit(p, raw, cf, rf)
    ELSE IF d = 0 THEN TxRollback(p, raw, rf)
    ELSE [calls |-> <<>>, err |-> NoExc, pending |-> p]

\* variant: the outermost exit attempts the commit whether or not an error is in flight
TxExitTryCommitOnError(p, raw, d, exctype, cf, rf) ==
    IF d = 0
    THEN TxCommit(p, raw, cf, rf)
    ELSE [calls |-> <<>>, err |-> NoExc, pending |-> p]

\* the try block of _TransactionCtx.__exit__, run with the decremented counter d
TxExitTry(p, raw, d, exctype, cf, rf) ==
    IF d = 0
    THEN IF exctype = NoExc THEN TxCommit(p, raw, cf, rf) ELSE TxRollback(p, raw, rf)
    ELSE [calls |-> <<>>, err |-> NoExc, pending |-> p]

\* variant: no try/finally, the cleanup is skipped when commit or rollback raised
TxExitNoFinally(c, should_close_conn, bodyErr) ==
    IF should_close_conn /\ bodyErr = NoExc THEN cleanup(c) ELSE c

\* variant: should_close_conn is not consulted, every exit cleans up
TxExitFinallyAlways(c, should_close_conn, bodyErr) == cleanup(c)

\* variant: the test of should_close_conn is inverted
TxExitFinallyInverted(c, should_close_conn, bodyErr) ==
    IF ~should_close_conn THEN cleanup(c) ELSE c

\* the finally block of _TransactionCtx.__exit__
TxExitFinally(c, should_close_conn, bodyErr) ==
    IF should_close_conn THEN cleanup(c) ELSE c

\* ------------------------------------------------------------------ Init
Init ==
    /\ engine = 0
    /\ rawCount = 0
    /\ ctx = [t \in Threads |-> [connection |-> NoConn, transactions |-> 0]]
    /\ stack = [t \in Threads |-> <<>>]
    /\ exc = [t \in Threads |-> NoExc]
    /\ pending = [r \in RawConns |-> {}]
    /\ failed = [t \in Threads |-> FALSE]
    /\ txCommits = [t \in Threads |-> 0]
    /\ txRollbacks = [t \in Threads |-> 0]
    /\ maxDepth = [t \in Threads |-> 0]
    /\ last = NoLast

\* ------------------------------------------------------------------ create_engine
\* variant: the `engine is not None` test is missing, every call installs its connection
CreateEngineOverwrite(t) ==
    /\ exc[t] = NoExc
    /\ rawCount < MaxEngineCalls
    /\ rawCount' = rawCount + 1
    /\ engine' = rawCount + 1
    /\ last' = [NoLast EXCEPT !.op = "create_engine", !.t = t, !.pre = ctx[t],
                               !.engine = engine]
    /\ UNCHANGED <<ctx, stack, exc, pending, failed, txCommits, txRollbacks, maxDepth>>

CreateEngine(t) ==
    /\ exc[t] = NoExc
    /\ rawCount < MaxEngineCalls
    /\ rawCount' = rawCount + 1
    /\ IF engine # 0
       THEN /\ exc' = [exc EXCEPT ![t] = Err("DBError")]
            /\ UNCHANGED engine
       ELSE /\ engine' = rawCount + 1
            /\ UNCHANGED exc
    /\ last' = [NoLast EXCEPT !.op = "create_engine", !.t = t, !.pre = ctx[t],
                               !.engine = engine]
    /\ UNCHANGED <<ctx, stack, pending, failed, txCommits, txRollbacks, maxDepth>>

\* ------------------------------------------------------------------ _ConnectionCtx
ConnEnter(t, n) ==
    /\ exc[t] = NoExc
    /\ Len(stack[t]) < n
    /\ IF ~is_init(ctx[t])
       THEN IF engine = 0
            THEN \* _LazyConnection() raises: None has no connect()
                 /\ exc' = [exc EXCEPT ![t] = Err("AttributeError")]
                 /\ last' = [NoLast EXCEPT !.op = "conn_enter", !.t = t, !.calls = <<"init">>,
                                            !.pre = ctx[t]]
                 /\ UNCHANGED <<ctx, stack>>
            ELSE /\ ctx' = [ctx EXCEPT ![t] = init(ctx[t])]
                 /\ stack' = [stack EXCEPT ![t] =
                        Append(@, [kind |-> "conn", flag |-> TRUE, pre |-> ctx[t]])]
                 /\ last' = [NoLast EXCEPT !.op = "conn_enter", !.t = t,
                                            !.calls = <<"init", "connect">>,
                                            !.flag = TRUE, !.pre = ctx[t], !.entered = TRUE]
                 /\ UNCHANGED exc
       ELSE /\ stack' = [stack EXCEPT ![t] =
                   Append(@, [kind |-> "conn", flag |-> FALSE, pre |-> ctx[t]])]
            /\ last' = [NoLast EXCEPT !.op = "conn_enter", !.t = t, !.pre = ctx[t],
                                       !.entered = TRUE]
            /\ UNCHANGED <<ctx, exc>>
    /\ UNCHANGED <<engine, rawCount, pending, failed, txCommits, txRollbacks, maxDepth>>

\* variant: should_cleanup is not consulted, every exit cleans up
ConnExitAlwaysCleanup(c, should_cleanup) == cleanup(c)

\* the state of the context after _ConnectionCtx.__exit__
ConnExitCtx(c, should_cleanup) == IF should_cleanup THEN cleanup(c) ELSE c

\* variant: _db_ctx is one object shared by all threads, not a threading.local
ConnExitShared(t) ==
    /\ stack[t] # <<>>
    /\ LET top == stack[t][Len(stack[t])] IN
       /\ top.kind = "conn"
       /\ ctx' = [u \in Threads |-> ConnExitCtx(ctx[u], top.flag)]
       /\ stack' = [stack EXCEPT ![t] = SubSeq(@, 1, Len(@) - 1)]
       /\ last' = [NoLast EXCEPT !.op = "conn_exit", !.t = t,
                                  !.calls = IF ctx'[t] # ctx[t] THEN <<"cleanup">> ELSE <<>>,
                                  !.excIn = exc[t], !.flag = top.flag, !.pre = top.pre]
    /\ UNCHANGED <<engine, rawCount, exc, pending, failed, txCommits, txRollbacks, maxDepth>>

ConnExit(t) ==
    /\ stack[t] # <<>>
    /\ LET top == stack[t][Len(stack[t])] IN
       /\ top.kind = "conn"
       /\ ctx' = [ctx EXCEPT ![t] = ConnExitCtx(ctx[t], top.flag)]
       /\ stack' = [stack EXCEPT ![t] = SubSeq(@, 1, Len(@) - 1)]
       /\ last' = [NoLast EXCEPT !.op = "conn_exit", !.t = t,
                                  !.calls = IF ctx'[t] # ctx[t] THEN <<"cleanup">> ELSE <<>>,
                                  !.excIn = exc[t], !.flag = top.flag, !.pre = top.pre]
    /\ UNCHANGED <<engine, rawCount, exc, pending, failed, txCommits, txRollbacks, maxDepth>>

\* ------------------------------------------------------------------ _TransactionCtx
TxEnter(t, n) ==
    /\ exc[t] = NoExc
    /\ Len(stack[t]) < n
    /\ IF ~is_init(ctx[t]) /\ engine = 0
       THEN /\ exc' = [exc EXCEPT ![t] = Err("AttributeError")]
            /\ last' = [NoLast EXCEPT !.op = "tx_enter", !.t = t, !.calls = <<"init">>,
                                       !.pre = ctx[t]]
            /\ UNCHANGED <<ctx, stack, failed, txCommits, txRollbacks, maxDepth>>
       ELSE LET fresh == ~is_init(ctx[t])
                c1 == IF fresh THEN init(ctx[t]) ELSE ctx[t]
                c2 == [c1 EXCEPT !.transactions = c1.transactions + 1]
            IN
            /\ ctx' = [ctx EXCEPT ![t] = c2]
            /\ stack' = [stack EXCEPT ![t] =
                   Append(@, [kind |-> "tx", flag |-> fresh, pre |-> ctx[t]])]
            /\ IF c2.transactions = 1
               THEN /\ failed' = [failed EXCEPT ![t] = FALSE]
                    /\ txCommits' = [txCommits EXCEPT ![t] = 0]
                    /\ txRollbacks' = [txRollbacks EXCEPT ![t] = 0]
                    /\ maxDepth' = [maxDepth EXCEPT ![t] = 1]
               ELSE /\ maxDepth' = [maxDepth EXCEPT ![t] =
                           IF c2.transactions > @ THEN c2.transactions ELSE @]
                    /\ UNCHANGED <<failed, txCommits, txRollbacks>>
            /\ last' = [NoLast EXCEPT !.op = "tx_enter", !.t = t,
                                       !.calls = IF fresh THEN <<"init", "connect">> ELSE <<>>,
                                       !.flag = fresh, !.pre = ctx[t], !.entered = TRUE]
            /\ UNCHANGED exc
    /\ UNCHANGED <<engine, rawCount, pending>>

\* variant: the counter is decremented after commit / rollback, so not when they raise
TxExitDecrementLast(t) ==
    /\ stack[t] # <<>>
    /\ LET top == stack[t][Len(stack[t])]
           d == ctx[t].transactions - 1
           c1 == [ctx[t] EXCEPT !.transactions = d]
       IN
       /\ top.kind = "tx"
       /\ \E cf \in BOOLEAN, rf \in BOOLEAN :
            LET r == TxExitTry(pending, c1.connection.raw, d, exc[t], cf, rf)
                c2 == TxExitFinally(IF r.err = NoExc THEN c1 ELSE ctx[t], top.flag, r.err)
            IN
            /\ (Count(r.calls, "commit") = 0 => ~cf)
            /\ (Count(r.calls, "rollback") = 0 => ~rf)
            /\ ctx' = [ctx EXCEPT ![t] = c2]
            /\ pending' = r.pending
            /\ exc' = [exc EXCEPT ![t] = IF r.err # NoExc THEN r.err ELSE @]
            /\ txCommits' = [txCommits EXCEPT ![t] = @ + Count(r.calls, "commit")]
            /\ txRollbacks' = [txRollbacks EXCEPT ![t] = @ + Count(r.calls, "rollback")]
            /\ failed' = [failed EXCEPT ![t] = @ \/ exc[t] # NoExc]
            /\ last' = [NoLast EXCEPT !.op = "tx_exit", !.t = t,
                           !.calls = r.calls \o (IF c2.connection # c1.connection
                                                 THEN <<"cleanup">> ELSE <<>>),
                           !.excIn = exc[t], !.flag = top.flag, !.pre = top.pre,
                           !.cf = cf, !.rf = rf]
       /\ stack' = [stack EXCEPT ![t] = SubSeq(@, 1, Len(@) - 1)]
    /\ UNCHANGED <<engine, rawCount, maxDepth>>

TxExit(t) ==
    /\ stack[t] # <<>>
    /\ LET top == stack[t][Len(stack[t])]
           d == ctx[t].transactions - 1
           c1 == [ctx[t] EXCEPT !.transactions = d]
       IN
       /\ top.kind = "tx"
       /\ \E cf \in BOOLEAN, rf \in BOOLEAN :
            LET r == TxExitTry(pending, c1.connection.raw, d, exc[t], cf, rf)
                c2 == TxExitFinally(c1, top.flag, r.err)
            IN
            \* the driver's outcomes only matter for the calls that are made
            /\ (Count(r.calls, "commit") = 0 => ~cf)
            /\ (Count(r.calls, "rollback") = 0 => ~rf)
            /\ ctx' = [ctx EXCEPT ![t] = c2]
            /\ pending' = r.pending
            /\ exc' = [exc EXCEPT ![t] = IF r.err # NoExc THEN r.err ELSE @]
            /\ txCommits' = [txCommits EXCEPT ![t] = @ + Count(r.calls, "commit")]
            /\ txRollbacks' = [txRollbacks EXCEPT ![t] = @ + Count(r.calls, "rollback")]
            /\ failed' = [failed EXCEPT ![t] = @ \/ exc[t] # NoExc]
            /\ last' = [NoLast EXCEPT !.op = "tx_exit", !.t = t,
                           !.calls = r.calls \o (IF c2.connection # c1.connection
                                                 THEN <<"cleanup">> ELSE <<>>),
                           !.excIn = exc[t], !.flag = top.flag, !.pre = top.pre,
                           !.cf = cf, !.rf = rf]
       /\ stack' = [stack EXCEPT ![t] = SubSeq(@, 1, Len(@) - 1)]
    /\ UNCHANGED <<engine, rawCount, maxDepth>>

\* ------------------------------------------------------------------ _update (insert, update)
\* variant: the counter is not tested, every executed statement is committed at once
UpdateBodyAlwaysCommit(p, raw, t, depth, ef, cf) ==
    IF ef
    THEN [calls |-> <<"cursor", "execute">>, err |-> Err("ExecuteError"), pending |-> p]
    ELSE [calls |-> <<"cursor", "execute", "commit">>,
          err |-> IF cf THEN Err("CommitError") ELSE NoExc,
          pending |-> AfterEnd([p EXCEPT ![raw] = @ \cup {t}], raw, ~cf)]

\* variant: the auto-commit sits in the finally block, so it runs after a failed execute too
UpdateBodyCommitInFinally(p, raw, t, depth, ef, cf) ==
    IF depth = 0
    THEN [calls |-> <<"cursor", "execute", "commit">>,
          err |-> IF ef THEN Err("ExecuteError") ELSE IF cf THEN Err("CommitError") ELSE NoExc,
          pending |-> AfterEnd(IF ef THEN p ELSE [p EXCEPT ![raw] = @ \cup {t}], raw, ~cf)]
    ELSE [calls |-> <<"cursor", "execute">>,
          err |-> IF ef THEN Err("ExecuteError") ELSE NoExc,
          pending |-> IF ef THEN p ELSE [p EXCEPT ![raw] = @ \cup {t}]]

\* the try block of _update, run by thread t with the counter at depth
UpdateBody(p, raw, t, depth, ef, cf) ==
    IF ef
    THEN [calls |-> <<"cursor", "execute">>, err |-> Err("ExecuteError"), pending |-> p]
    ELSE LET p1 == [p EXCEPT ![raw] = @ \cup {t}] IN
         IF depth = 0
         THEN [calls |-> <<"cursor", "execute", "commit">>,
               err |-> IF cf THEN Err("CommitError") ELSE NoExc,
               pending |-> AfterEnd(p1, raw, ~cf)]
         ELSE [calls |-> <<"cursor", "execute">>, err |-> NoExc, pending |-> p1]

Update(t) ==
    /\ exc[t] = NoExc
    /\ IF ~is_init(ctx[t]) /\ engine = 0
       THEN \* with_connection: _ConnectionCtx.__enter__ raises
            /\ exc' = [exc EXCEPT ![t] = Err("AttributeError")]
            /\ last' = [NoLast EXCEPT !.op = "update", !.t = t, !.calls = <<"init">>,
                                       !.pre = ctx[t]]
            /\ UNCHANGED <<ctx, pending, txCommits>>
       ELSE \E ef \in BOOLEAN, cf \in BOOLEAN :
            LET should_cleanup == ~is_init(ctx[t])
                c1 == IF should_cleanup THEN init(ctx[t]) ELSE ctx[t]
                r == UpdateBody(pending, c1.connection.raw, t, c1.transactions, ef, cf)
                c2 == ConnExitCtx(c1, should_cleanup)
            IN
            /\ (Count(r.calls, "commit") = 0 => ~cf)
            /\ ctx' = [ctx EXCEPT ![t] = c2]
            /\ pending' = r.pending
            /\ exc' = [exc EXCEPT ![t] = r.err]
            /\ txCommits' = [txCommits EXCEPT ![t] =
                   IF c1.transactions > 0 THEN @ + Count(r.calls, "commit") ELSE @]
            /\ last' = [NoLast EXCEPT !.op = "update", !.t = t,
                           !.calls = (IF should_cleanup THEN <<"init", "connect">> ELSE <<>>)
                                     \o r.calls
                                     \o (IF should_cleanup THEN <<"cleanup">> ELSE <<>>),
                           !.flag = should_cleanup, !.pre = ctx[t], !.entered = TRUE,
                           !.ef = ef, !.cf = cf]
    /\ UNCHANGED <<engine, rawCount, stack, failed, txRollbacks, maxDepth>>

\* ------------------------------------------------------------------ _select, select_int
\* Dict(names, values): one key per distinct name
DictLen(names) == Cardinality({names[i] : i \in DOMAIN names})

\* _select(sql, True): None when fetchone() gives no row, else the Dict of the row
SelectFirst(rows, names) ==
    IF rows = 0 THEN [none |-> TRUE, len |-> 0] ELSE [none |-> FALSE, len |-> DictLen(names)]

\* the body of select_int: len(d) raises on None
SelectIntBody(rows, names, ef) ==
    IF ef
    THEN [calls |-> <<"cursor", "execute">>, err |-> Err("ExecuteError"), ret |-> "none"]
    ELSE LET d == SelectFirst(rows, names) IN
         IF d.none
         THEN [calls |-> <<"cursor", "execute">>, err |-> Err("TypeError"), ret |-> "none"]
         ELSE IF d.len # 1
              THEN [calls |-> <<"cursor", "execute">>, err |-> Err("MultiColumnsError"),
                    ret |-> "none"]
              ELSE [calls |-> <<"cursor", "execute">>, err |-> NoExc, ret |-> "value"]

SelectInt(t) ==
    /\ exc[t] = NoExc
    /\ IF ~is_init(ctx[t]) /\ engine = 0
       THEN /\ exc' = [exc EXCEPT ![t] = Err("AttributeError")]
            /\ last' = [NoLast EXCEPT !.op = "select_int", !.t = t, !.calls = <<"init">>,
                                       !.pre = ctx[t]]
            /\ UNCHANGED ctx
       ELSE \E ef \in BOOLEAN, rows \in 0..MaxRows, names \in Descriptions :
            LET should_cleanup == ~is_init(ctx[t])
                c1 == IF should_cleanup THEN init(ctx[t]) ELSE ctx[t]
                r == SelectIntBody(rows, names, ef)
                c2 == ConnExitCtx(c1, should_cleanup)
            IN
            /\ ctx' = [ctx EXCEPT ![t] = c2]
            /\ exc' = [exc EXCEPT ![t] = r.err]
            /\ last' = [NoLast EXCEPT !.op = "select_int", !.t = t,
                           !.calls = (IF should_cleanup THEN <<"init", "connect">> ELSE <<>>)
                                     \o r.calls
                                     \o (IF should_cleanup THEN <<"cleanup">> ELSE <<>>),
                           !.flag = should_cleanup, !.pre = ctx[t], !.entered = TRUE,
                           !.ef = ef, !.rows = rows, !.names = names, !.ret = r.ret]
    /\ UNCHANGED <<engine, rawCount, stack, pending, failed, txCommits, txRollbacks, maxDepth>>

\* ------------------------------------------------------------------ the caller's block
\* the protected block raises
Raise(t) ==
    /\ exc[t] = NoExc
    /\ stack[t] # <<>>
    /\ exc' = [exc EXCEPT ![t] = Err("BlockError")]
    /\ last' = [NoLast EXCEPT !.op = "raise", !.t = t, !.pre = ctx[t]]
    /\ UNCHANGED <<engine, rawCount, ctx, stack, pending, failed, txCommits, txRollbacks, maxDepth>>

\* the caller handles the exception in flight (try/except around an inner block or call)
Catch(t) ==
    /\ exc[t] # NoExc
    /\ exc' = [exc EXCEPT ![t] = NoExc]
    /\ last' = [NoLast EXCEPT !.op = "catch", !.t = t, !.excIn = exc[t], !.pre = ctx[t]]
    /\ UNCHANGED <<engine, rawCount, ctx, stack, pending, failed, txCommits, txRollbacks, maxDepth>>

\* how deep the caller running in thread t nests its scopes: thread 1 up to the
\* bound, the other thread one scope at a time
NestConc(t) == IF t = 1 THEN MaxNestConc ELSE 1

\* two threads, each with its own context
Next ==
    \E t \in Threads :
        \/ CreateEngine(t)
        \/ ConnEnter(t, NestConc(t))
        \/ ConnExit(t)
        \/ TxEnter(t, NestConc(t))
        \/ TxExit(t)
        \/ Update(t)
        \/ Raise(t)
        \/ Catch(t)

Spec == Init /\ [][Next]_vars

\* one thread, deeper nesting
NextSeq ==
    \/ CreateEngine(1)
    \/ ConnEnter(1, MaxNest)
    \/ ConnExit(1)
    \/ TxEnter(1, MaxNest)
    \/ TxExit(1)
    \/ Update(1)
    \/ SelectInt(1)
    \/ Raise(1)
    \/ Catch(1)

SpecSeq == Init /\ [][NextSeq]_vars

\* ================================================================== claims
\* the thread of the last handler, its context now, and the calls the handler issued
LastCtx == ctx[last.t]
LastExc == exc[last.t]
Issued(x) == Count(last.calls, x)
OutermostTxExit == last.op = "tx_exit" /\ LastCtx.transactions = 0
InnerTxExit == last.op = "tx_exit" /\ LastCtx.transactions > 0

\* C1 (as stated): when N nested TransactionScopes all exit without an error, the
\* outermost exit issues exactly one commit() and no rollback() is issued at all;
\* the inner exits issue neither.
C1_Original ==
    (last.op = "tx_exit" /\ ~failed[last.t]) =>
        IF LastCtx.transactions = 0
        THEN /\ Issued("commit") = 1 /\ txCommits[last.t] = 1
             /\ Issued("rollback") = 0 /\ txRollbacks[last.t] = 0
        ELSE Issued("commit") = 0 /\ Issued("rollback") = 0

\* C1 (amended): when N nested TransactionScopes all exit without an error, exactly
\* one commit() is issued, at the outermost exit where transactions returns to 0; the
\* inner exits issue neither commit nor rollback; a rollback() is issued only when
\* that commit fails, and then exactly once, after it.
C1_NestedCommitOnce ==
    (last.op = "tx_exit" /\ ~failed[last.t]) =>
        IF LastCtx.transactions = 0
        THEN /\ Issued("commit") = 1 /\ txCommits[last.t] = 1
             /\ last.calls[1] = "commit"
             /\ Issued("rollback") = (IF last.cf THEN 1 ELSE 0)
             /\ txRollbacks[last.t] = Issued("rollback")
        ELSE /\ Issued("commit") = 0 /\ Issued("rollback") = 0
             /\ txCommits[last.t] = 0 /\ txRollbacks[last.t] = 0

\* three scopes deep, all exited without an error, the commit went through
C1_Witness ==
    /\ OutermostTxExit /\ ~failed[last.t] /\ maxDepth[last.t] >= 3
    /\ ~last.cf /\ last.calls[1] = "commit"

\* C2: if any TransactionScope of the nesting exits with an error, the outermost
\* exit issues exactly one rollback() and no commit(), whether or not that error is
\* still in flight there.
C2_Original ==
    (OutermostTxExit /\ failed[last.t]) =>
        (Issued("rollback") = 1 /\ Issued("commit") = 0)

C4_OwnerAlwaysCleansUp ==
    \* the scopes entered by the caller, and the ConnectionScope update runs in
    ((last.op \in {"conn_exit", "tx_exit"} \/ (last.op = "update" /\ last.entered))
        /\ last.flag) =>
        /\ Issued("cleanup") = 1
        /\ last.calls[Len(last.calls)] = "cleanup"
        /\ ~is_init(LastCtx)

\* the owner's exit where the commit and the compensating rollback both failed
C4_Witness ==
    /\ last.op = "tx_exit" /\ last.flag /\ last.cf /\ last.rf
    /\ Issued("cleanup") = 1 /\ ~is_init(LastCtx)

\* C5: a ConnectionScope entered on a context that is not initialized does one
\* init() at entry and one cleanup() at exit and leaves it not initialized; entered
\* on an initialized context it does neither and leaves the same LazyConnection.
C5_ConnectionScopeFrame ==
    /\ (last.op = "conn_enter" /\ last.entered) =>
          /\ is_init(LastCtx)
          /\ IF is_init(last.pre)
             THEN Issued("init") = 0 /\ ~last.flag /\ LastCtx = last.pre
             ELSE Issued("init") = 1 /\ last.flag
    /\ last.op = "conn_exit" =>
          /\ is_init(LastCtx) = is_init(last.pre)
          /\ IF is_init(last.pre)
             THEN Issued("cleanup") = 0 /\ LastCtx.connection = last.pre.connection
             ELSE Issued("cleanup") = 1

\* an inner ConnectionScope exits and the enclosing scope's LazyConnection is kept
C5_Witness ==
    /\ last.op = "conn_exit" /\ is_init(last.pre)
    /\ LastCtx.connection = last.pre.connection /\ stack[last.t] # <<>>

\* C6: an update whose statement executes issues one commit() right after the
\* execute when transactions is 0 and none when it is greater; inside a transaction
\* the context issues no commit or rollback before the outermost scope's exit,
\* which issues the one that covers the statement.
C6_UpdateAutoCommit ==
    /\ (last.op = "update" /\ last.entered /\ ~last.ef) =>
          IF LastCtx.transactions = 0
          THEN /\ Issued("commit") = 1
               /\ Index(last.calls, "commit") = Index(last.calls, "execute") + 1
          ELSE Issued("commit") = 0 /\ Issued("rollback") = 0
    /\ \A t \in Threads :
          ctx[t].transactions > 0 => (txCommits[t] = 0 /\ txRollbacks[t] = 0)
    /\ OutermostTxExit => last.calls[1] \in {"commit", "rollback"}

\* an update inside a transaction: executed, not committed, pending on the connection
C6_Witness ==
    /\ last.op = "update" /\ ~last.ef /\ LastCtx.transactions > 0
    /\ Issued("execute") = 1 /\ Issued("commit") = 0
    /\ last.t \in pending[LastCtx.connection.raw]

\* C7: two contexts that are initialized at the same time hold different raw
\* connections.
C7_Original ==
    \A t1 \in Threads, t2 \in Threads :
        (t1 # t2 /\ is_init(ctx[t1]) /\ is_init(ctx[t2])) =>
            ctx[t1].connection.raw # ctx[t2].connection.raw

\* C8: when the commit and the compensating rollback both fail, the caller gets a
\* TransactionError that carries the commit error as its cause.
C8_Original ==
    (OutermostTxExit /\ last.excIn = NoExc /\ last.cf /\ last.rf) =>
        (LastExc.kind = "TransactionError" /\ LastExc.cause = "CommitError")

\* C9: on every scope exit with an error in flight, the error that reaches the
\* caller is the block's original error.
C9_Original ==
    (last.op \in {"conn_exit", "tx_exit"} /\ last.excIn # NoExc) =>
        LastExc.kind = last.excIn.kind

\* C10: a TransactionScope exit with an error calls rollback() and no commit() when
\* the decremented transactions is 0, then cleans up iff the scope initialized the
\* context; when the decremented value is greater than 0 it calls neither.
C10_ErrorExitRollsBack ==
    (last.op = "tx_exit" /\ last.excIn # NoExc) =>
        IF LastCtx.transactions = 0
        THEN /\ Issued("rollback") = 1 /\ Issued("commit") = 0
             /\ last.calls[1] = "rollback"
             /\ Issued("cleanup") = (IF last.flag THEN 1 ELSE 0)
             /\ (last.flag => last.calls[2] = "cleanup" /\ ~is_init(LastCtx))
        ELSE last.calls = <<>>

\* the owner's exit with the block's error in flight: rolled back, then cleaned up
C10_Witness ==
    /\ OutermostTxExit /\ last.excIn = Err("BlockError") /\ last.flag
    /\ last.calls = <<"rollback", "cleanup">>

\* C11: create_engine on an engine that is already set fails with an error and
\* leaves the engine unchanged; the engine is always the one the first call set
\* (the first raw connection made).
C11_EngineSetOnce ==
    /\ last.op = "create_engine" =>
          IF last.engine # 0
          THEN engine = last.engine /\ LastExc = Err("DBError")
          ELSE engine = rawCount /\ engine # 0 /\ LastExc = NoExc
    /\ engine \in {0, 1}

\* a second create_engine: refused, the engine is still the first one
C11_Witness ==
    /\ last.op = "create_engine" /\ last.engine = 1 /\ engine = 1
    /\ rawCount = 2 /\ LastExc = Err("DBError")

\* C12 (as stated): a statement that fails in update outside any transaction gets
\* no commit(), its error reaches the caller, and the context is left not
\* initialized with transactions 0.
C12_Original ==
    (last.op = "update" /\ last.entered /\ last.ef /\ last.pre.transactions = 0) =>
        /\ Issued("commit") = 0
        /\ LastExc = Err("ExecuteError")
        /\ ~is_init(LastCtx) /\ LastCtx.transactions = 0

\* C12 (amended): a statement that fails in update outside any transaction gets no
\* commit(), its error reaches the caller, transactions stays 0, and update's
\* ConnectionScope cleans up exactly when it initialized the context: the context
\* is then not initialized, and otherwise keeps the enclosing scope's LazyConnection.
C12_FailedUpdateUncommitted ==
    (last.op = "update" /\ last.entered /\ last.ef /\ last.pre.transactions = 0) =>
        /\ Issued("commit") = 0 /\ Issued("rollback") = 0
        /\ LastExc = Err("ExecuteError")
        /\ LastCtx.transactions = 0
        /\ IF is_init(last.pre)
           THEN Issued("cleanup") = 0 /\ LastCtx = last.pre
           ELSE Issued("cleanup") = 1 /\ ~is_init(LastCtx)

\* a stand-alone update whose execute failed: cleaned up, nothing committed
C12_Witness ==
    /\ last.op = "update" /\ last.ef /\ last.flag /\ ~is_init(last.pre)
    /\ LastExc = Err("ExecuteError") /\ ~is_init(LastCtx) /\ Issued("execute") = 1

\* C13: select_int gives the explicit no-row result, without an error, when the
\* query returns no row; the column's value when the first row has one column;
\* MultiColumnsError when it has two or more.
C13_Original ==
    (last.op = "select_int" /\ last.entered /\ ~last.ef) =>
        IF last.rows = 0
        THEN LastExc = NoExc /\ last.ret = "absent"
        ELSE IF Len(last.names) = 1
             THEN LastExc = NoExc /\ last.ret = "value"
             ELSE LastExc = Err("MultiColumnsError")

\* C14: in every reachable state of a context, transactions >= 0, and
\* transactions > 0 implies the context owns a LazyConnection.
C14_DepthImpliesConnection ==
    \A t \in Threads :
        /\ ctx[t].transactions >= 0
        /\ ctx[t].transactions > 0 => is_init(ctx[t])

\* still two transactions deep after an inner scope exited with an error in flight
C14_Witness ==
    /\ last.op = "tx_exit" /\ last.excIn # NoExc
    /\ LastCtx.transactions >= 2 /\ is_init(LastCtx)

\* C15: whenever cleanup() is invoked transactions is already 0, so a context
\* that is not initialized has transactions 0.
C15_CleanupAtDepthZero ==
    /\ \A t \in Threads : ~is_init(ctx[t]) => ctx[t].transactions = 0
    /\ Issued("cleanup") > 0 => LastCtx.transactions = 0

\* the owning ConnectionScope exits after nested transactions ran inside it
C15_Witness ==
    /\ last.op = "conn_exit" /\ last.flag /\ Issued("cleanup") = 1
    /\ maxDepth[last.t] >= 2 /\ failed[last.t] /\ ~is_init(LastCtx)

\* C16: entering a scope (init()) does not call the Engine's connect(); the
\* LazyConnection holds no raw connection until the first cursor().
C16_Original ==
    (last.op \in {"conn_enter", "tx_enter"} /\ last.entered /\ last.flag) =>
        (Issued("connect") = 0 /\ LastCtx.connection.raw = 0)

\* C17: under any interleaving of two threads, a handler run by one thread never
\* changes the other thread's context (its LazyConnection reference and its
\* transactions counter).
C17_ContextsThreadLocal ==
    [][\A t \in Threads : last'.t # t => ctx'[t] = ctx[t]]_vars

\* thread 2 finished a transaction while thread 1 is inside its own
C17_Witness ==
    /\ last.t = 2 /\ last.op = "tx_exit" /\ Issued("cleanup") = 1
    /\ ctx[1].transactions = 1 /\ is_init(ctx[1]) /\ ~is_init(ctx[2])

\* C18: statements a thread executed inside its open transaction stop being
\* pending (are committed or discarded) only through that thread's own commit()
\* or rollback(), never through one issued by the other thread.
C18_Original ==
    [][\A a \in Threads, r \in RawConns :
          (a \in pending[r] /\ ctx[a].transactions > 0 /\ a \notin pending'[r])
              => last'.t = a]_vars

\* C19: after a TransactionScope exit, on any path, transactions equals its value
\* just before the matching entry; the counter always equals the number of
\* TransactionScopes entered and not yet exited.
C19_DepthRestored ==
    /\ last.op = "tx_exit" => LastCtx.transactions = last.pre.transactions
    /\ \A t \in Threads :
          ctx[t].transactions =
              Cardinality({i \in DOMAIN stack[t] : stack[t][i].kind = "tx"})

\* an inner scope and then the outermost one exit, the last with a failed commit
\* and a failed compensating rollback: the counter is back at its entry value
C19_Witness ==
    /\ last.op = "tx_exit" /\ last.cf /\ last.rf /\ maxDepth[last.t] >= 2
    /\ LastCtx.transactions = 0 /\ last.pre.transactions = 0

====
